---- MODULE Spec2Model ----
(***************************************************************************)
(* GraphASTEncoder (src/model/encoder.py): one batch call of forward().    *)
(* The batch of trees is flattened into one combined graph                 *)
(* (get_batched_adjacency_lists), every combined node gets an initial      *)
(* feature index (get_batched_tree_init_encoding), the propagation engine  *)
(* is invoked once, and the result is un-flattened into a padded, masked   *)
(* per-tree tensor (unpack_batch_encoding).                                *)
(*                                                                         *)
(* Ids are 0-based as in the source; sequences are 1-based, so the element *)
(* of python index i is element i+1 of the sequence that models the list.  *)
(* An OrderedDict is a sequence of <<key, value>> entries in insertion     *)
(* order.  A vector is modelled by its provenance: row c of the engine's   *)
(* output is the value c+1, the zero vector is 0.                          *)
(***************************************************************************)
EXTENDS Integers, Sequences, FiniteSets, TLC

\* ---- bounds of the input domain ----
MaxSize == 3
MaxTotal == 4

\* ---- external lookup tables (self.vocab.source, self.grammar.syntax_type_to_id) ----
VocabSource == ("<unk>" :> 0) @@ ("x" :> 1) @@ ("y" :> 2)
SyntaxTypeToId == ("block" :> 0) @@ ("expr" :> 1)

VocabLen == Cardinality(DOMAIN VocabSource)

\* ---- the input trees ----
NodeIds(size) == 0..(size - 1)

SeqsUpTo(S, n) == UNION {[1..k -> S] : k \in 0..n}

\* parent/child edges as pairs of node ids.  The batches explored number the
\* nodes so that a parent's id is below its children's, and give a tree of s
\* nodes at most s-1 edges; an edge may occur twice.
EdgeLists(s) ==
  SeqsUpTo({p \in NodeIds(s) \X NodeIds(s) : p[1] < p[2]}, s - 1)

\* adjacent-terminal pairs: the consecutive pairs of a left-to-right order of
\* distinct node ids
TerminalOrders(s) ==
  {t \in SeqsUpTo(NodeIds(s), s) :
     /\ Len(t) # 1
     /\ \A i, j \in 1..Len(t) : t[i] = t[j] => i = j}

ConsecutivePairs(t) == [i \in 1..(Len(t) - 1) |-> <<t[i], t[i + 1]>>]

\* the node lookup of the batches explored: a node with a child is a syntax
\* node, any other node a variable node; every var_id and node_type is known
\* to the vocabulary and the grammar, so the lookups of lines 100-105 succeed
IdToNode(s, a) ==
  [n \in NodeIds(s) |->
     IF \E k \in 1..Len(a) : a[k][1] = n
     THEN [is_variable_node |-> FALSE, var_id |-> "",
           node_type |-> IF n % 2 = 0 THEN "block" ELSE "expr"]
     ELSE [is_variable_node |-> TRUE, var_id |-> IF n % 2 = 0 THEN "y" ELSE "x",
           node_type |-> "var"]]

\* A tree as the encoder sees it: its node count, the parent/child edges,
\* the adjacent-terminal pairs and the node lookup.  A node need not occur in
\* an edge, and a terminal pair may name a node that occurs in none (the
\* malformed tree of the KeyError path).
TreesOfSize(s) ==
  {[size |-> s, adjacency_list |-> a, adjacent_terminal_nodes |-> ConsecutivePairs(t),
    id_to_node |-> IdToNode(s, a)] :
      a \in EdgeLists(s), t \in TerminalOrders(s)}

RECURSIVE SumSeq(_)
SumSeq(s) == IF s = <<>> THEN 0 ELSE Head(s) + SumSeq(Tail(s))

SizeSeqs == {s \in SeqsUpTo(1..MaxSize, MaxTotal) : SumSeq(s) <= MaxTotal}

Trees == [s \in 1..MaxSize |-> TreesOfSize(s)]

\* the batches whose trees have the sizes given, tree by tree
RECURSIVE BatchesOf(_)
BatchesOf(sizes) ==
  IF sizes = <<>> THEN {<<>>}
  ELSE LET rests == BatchesOf(Tail(sizes))
       IN {<<t>> \o rest : t \in Trees[Head(sizes)], rest \in rests}

\* ---- OrderedDict ----
HasKey(d, k) == \E i \in 1..Len(d) : d[i][1] = k

GetItem(d, k) == d[CHOOSE i \in 1..Len(d) : d[i][1] = k][2]

SetItem(d, k, v) ==
  IF HasKey(d, k)
  THEN [i \in 1..Len(d) |-> IF d[i][1] = k THEN <<k, v>> ELSE d[i]]
  ELSE Append(d, <<k, v>>)

\* d[k] = default in place of d.setdefault(k, default)
SetDefaultOverwrites(d, k, default) == SetItem(d, k, default)

SetDefault(d, k, default) == IF HasKey(d, k) THEN d ELSE Append(d, <<k, default>>)

RECURSIVE InsertAll(_, _)
InsertAll(d, pairs) ==
  IF pairs = <<>> THEN d
  ELSE InsertAll(SetItem(d, Head(pairs)[1], Head(pairs)[2]), Tail(pairs))

OrderedDict(pairs) == InsertAll(<<>>, pairs)

\* ---- state ----
VARIABLES
  asts,                              \* the batch given to forward
  pc,                                \* position in forward
  error,                             \* the exception that ended the call
  ast_id, edge_pos, term_pos,        \* the loops of get_batched_adjacency_lists
  tree_node2batch_graph_node,
  ast_adj_list, reversed_ast_adj_list,
  terminal_nodes_adj_list, reversed_terminal_nodes_adj_list,
  adj_lists, batch_graph_node2tree_node,
  indices,                           \* argument of src_node_embedding
  gnn_calls,                         \* invocations of gnn.compute_node_representations
  tree_node_encoding,
  result                             \* what forward returns

vars == <<asts, pc, error, ast_id, edge_pos, term_pos, tree_node2batch_graph_node,
          ast_adj_list, reversed_ast_adj_list, terminal_nodes_adj_list,
          reversed_terminal_nodes_adj_list, adj_lists, batch_graph_node2tree_node,
          indices, gnn_calls, tree_node_encoding, result>>

loopVars == <<ast_id, edge_pos, term_pos>>
listVars == <<ast_adj_list, reversed_ast_adj_list, terminal_nodes_adj_list,
              reversed_terminal_nodes_adj_list>>
laterVars == <<adj_lists, batch_graph_node2tree_node, indices, gnn_calls,
               tree_node_encoding, result>>

NoResult == [batch_tree_node_encoding |-> <<>>, batch_tree_node_masks |-> <<>>]

Init ==
  /\ \E sizes \in SizeSeqs : asts \in BatchesOf(sizes)
  /\ pc = "adj"
  /\ error = "none"
  /\ ast_id = 0 /\ edge_pos = 0 /\ term_pos = 0
  /\ tree_node2batch_graph_node = <<>>
  /\ ast_adj_list = <<>> /\ reversed_ast_adj_list = <<>>
  /\ terminal_nodes_adj_list = <<>> /\ reversed_terminal_nodes_adj_list = <<>>
  /\ adj_lists = <<>>
  /\ batch_graph_node2tree_node = <<>>
  /\ indices = <<>>
  /\ gnn_calls = 0
  /\ tree_node_encoding = <<>>
  /\ result = NoResult

\* ---- get_batched_adjacency_lists ----
\* the reverse relation fed the pair in forward order
UnreversedEdge(s, t) == <<s, t>>

ReversedEdge(s, t) == <<t, s>>

\* for prev_node, succ_node in syntax_tree.adjacency_list: one iteration
AddEdge ==
  /\ pc = "adj"
  /\ ast_id < Len(asts)
  /\ edge_pos < Len(asts[ast_id + 1].adjacency_list)
  /\ LET edge == asts[ast_id + 1].adjacency_list[edge_pos + 1]
         ks == <<ast_id, edge[1]>>
         kt == <<ast_id, edge[2]>>
         d1 == SetDefault(tree_node2batch_graph_node, ks, Len(tree_node2batch_graph_node))
         node_s_batch_id == GetItem(d1, ks)
         d2 == SetDefault(d1, kt, Len(d1))
         node_t_batch_id == GetItem(d2, kt)
     IN /\ tree_node2batch_graph_node' = d2
        /\ ast_adj_list' = Append(ast_adj_list, <<node_s_batch_id, node_t_batch_id>>)
        /\ reversed_ast_adj_list' =
             Append(reversed_ast_adj_list, ReversedEdge(node_s_batch_id, node_t_batch_id))
  /\ edge_pos' = edge_pos + 1
  /\ UNCHANGED <<asts, pc, error, ast_id, term_pos, terminal_nodes_adj_list,
                 reversed_terminal_nodes_adj_list, laterVars>>

KeyError == -1

\* a lookup by local id alone, in whichever tree maps it first
TerminalBatchIdAnyTree(d, tree, node_id) ==
  IF \E i \in 1..Len(d) : d[i][1][2] = node_id
  THEN d[CHOOSE i \in 1..Len(d) :
             /\ d[i][1][2] = node_id
             /\ \A j \in 1..(i - 1) : d[j][1][2] # node_id][2]
  ELSE KeyError

\* tree_node2batch_graph_node[(ast_id, node_id)]
TerminalBatchId(d, tree, node_id) ==
  IF HasKey(d, <<tree, node_id>>) THEN GetItem(d, <<tree, node_id>>) ELSE KeyError

\* for node_id, succ_node_id in syntax_tree.adjacent_terminal_nodes: one iteration
AddTerminalPair ==
  /\ pc = "adj"
  /\ ast_id < Len(asts)
  /\ edge_pos = Len(asts[ast_id + 1].adjacency_list)
  /\ term_pos < Len(asts[ast_id + 1].adjacent_terminal_nodes)
  /\ LET pair == asts[ast_id + 1].adjacent_terminal_nodes[term_pos + 1]
         cur_token_batch_id == TerminalBatchId(tree_node2batch_graph_node, ast_id, pair[1])
         next_token_batch_id == TerminalBatchId(tree_node2batch_graph_node, ast_id, pair[2])
     IN IF cur_token_batch_id = KeyError \/ next_token_batch_id = KeyError
        THEN /\ pc' = "error"
             /\ error' = "KeyError"
             /\ UNCHANGED <<term_pos, terminal_nodes_adj_list,
                            reversed_terminal_nodes_adj_list>>
        ELSE /\ terminal_nodes_adj_list' =
                  Append(terminal_nodes_adj_list, <<cur_token_batch_id, next_token_batch_id>>)
             /\ reversed_terminal_nodes_adj_list' =
                  Append(reversed_terminal_nodes_adj_list,
                         ReversedEdge(cur_token_batch_id, next_token_batch_id))
             /\ term_pos' = term_pos + 1
             /\ UNCHANGED <<pc, error>>
  /\ UNCHANGED <<asts, ast_id, edge_pos, tree_node2batch_graph_node, ast_adj_list,
                 reversed_ast_adj_list, laterVars>>

\* for ast_id, syntax_tree in enumerate(asts): on to the next tree
NextAst ==
  /\ pc = "adj"
  /\ ast_id < Len(asts)
  /\ edge_pos = Len(asts[ast_id + 1].adjacency_list)
  /\ term_pos = Len(asts[ast_id + 1].adjacent_terminal_nodes)
  /\ ast_id' = ast_id + 1
  /\ edge_pos' = 0
  /\ term_pos' = 0
  /\ UNCHANGED <<asts, pc, error, tree_node2batch_graph_node, listVars, laterVars>>

AdjacencyList(node_num, adj_list) == [node_num |-> node_num, adj_list |-> adj_list]

\* the chain relations added without the emptiness test
AdjListsAlwaysChain(all_nodes_num, tree, rtree, chain, rchain) ==
  <<AdjacencyList(all_nodes_num, tree), AdjacencyList(all_nodes_num, rtree),
    AdjacencyList(all_nodes_num, chain), AdjacencyList(all_nodes_num, rchain)>>

AdjLists(all_nodes_num, tree, rtree, chain, rchain) ==
  <<AdjacencyList(all_nodes_num, tree), AdjacencyList(all_nodes_num, rtree)>>
  \o (IF chain # <<>>
      THEN <<AdjacencyList(all_nodes_num, chain), AdjacencyList(all_nodes_num, rchain)>>
      ELSE <<>>)

BatchGraphNode2TreeNode(d) == OrderedDict([i \in 1..Len(d) |-> <<d[i][2], d[i][1]>>])

\* after the loops: the relations and the reverse map
ReturnAdjacencyLists ==
  /\ pc = "adj"
  /\ ast_id = Len(asts)
  /\ adj_lists' = AdjLists(Len(tree_node2batch_graph_node), ast_adj_list,
                           reversed_ast_adj_list, terminal_nodes_adj_list,
                           reversed_terminal_nodes_adj_list)
  /\ batch_graph_node2tree_node' = BatchGraphNode2TreeNode(tree_node2batch_graph_node)
  /\ pc' = "init"
  /\ UNCHANGED <<asts, error, loopVars, tree_node2batch_graph_node, listVars,
                 indices, gnn_calls, tree_node_encoding, result>>

\* ---- get_batched_tree_init_encoding ----
\* the grammar index without the vocabulary offset
NodeIndexNoOffset(node) ==
  IF node.is_variable_node
  THEN VocabSource[node.var_id]
  ELSE SyntaxTypeToId[node.node_type]

NodeIndex(node) ==
  IF node.is_variable_node
  THEN VocabSource[node.var_id]
  ELSE SyntaxTypeToId[node.node_type] + VocabLen

InitIndices(trees, rev) ==
  [i \in 1..Len(rev) |-> NodeIndex(trees[rev[i][2][1] + 1].id_to_node[rev[i][2][2]])]

GetBatchedTreeInitEncoding ==
  /\ pc = "init"
  /\ indices' = InitIndices(asts, batch_graph_node2tree_node)
  /\ pc' = "gnn"
  /\ UNCHANGED <<asts, error, loopVars, tree_node2batch_graph_node, listVars, adj_lists,
                 batch_graph_node2tree_node, gnn_calls, tree_node_encoding, result>>

\* ---- gnn.compute_node_representations ----
ZeroVector == 0
Row(c) == c + 1

ComputeNodeRepresentations ==
  /\ pc = "gnn"
  /\ gnn_calls' = gnn_calls + 1
  /\ tree_node_encoding' = [i \in 1..Len(indices) |-> Row(i - 1)]
  /\ pc' = "unpack"
  /\ UNCHANGED <<asts, error, loopVars, tree_node2batch_graph_node, listVars, adj_lists,
                 batch_graph_node2tree_node, indices, result>>

ComputeNodeRepresentationsFails ==
  /\ pc = "gnn"
  /\ gnn_calls' = gnn_calls + 1
  /\ pc' = "error"
  /\ error' = "EngineError"
  /\ UNCHANGED <<asts, loopVars, tree_node2batch_graph_node, listVars, adj_lists,
                 batch_graph_node2tree_node, indices, tree_node_encoding, result>>

\* ---- unpack_batch_encoding ----
SetMax(S) == CHOOSE m \in S : \A x \in S : x <= m

\* the widest tree counted by the nodes its edges touch
MaxMappedNodeNum(batch_syntax_trees) ==
  SetMax({Cardinality({batch_syntax_trees[i].adjacency_list[k][1] :
                         k \in 1..Len(batch_syntax_trees[i].adjacency_list)}
                      \cup {batch_syntax_trees[i].adjacency_list[k][2] :
                         k \in 1..Len(batch_syntax_trees[i].adjacency_list)}) :
            i \in 1..Len(batch_syntax_trees)})

MaxNodeNum(batch_syntax_trees) ==
  SetMax({batch_syntax_trees[i].size : i \in 1..Len(batch_syntax_trees)})

ExampleNodesWithBatchId(d, e_id) ==
  LET mine == SelectSeq(d, LAMBDA ent : ent[1][1] = e_id)
  IN [i \in 1..Len(mine) |-> <<mine[i][1][2], mine[i][2]>>]

\* sorted(..., key=lambda t: t[0]): stable insertion into a sorted prefix
RECURSIVE InsertSorted(_, _)
InsertSorted(sorted, t) ==
  IF sorted = <<>> THEN <<t>>
  ELSE IF t[1] < Head(sorted)[1] THEN <<t>> \o sorted
  ELSE <<Head(sorted)>> \o InsertSorted(Tail(sorted), t)

\* the filtered entries left in insertion order
UnsortedByNodeId(s) == s

RECURSIVE SortedByNodeId(_)
SortedByNodeId(s) ==
  IF s = <<>> THEN <<>>
  ELSE InsertSorted(SortedByNodeId(SubSeq(s, 1, Len(s) - 1)), s[Len(s)])

ExampleNodesBatchId(d, e_id) ==
  LET sorted_example_nodes_with_batch_id == SortedByNodeId(ExampleNodesWithBatchId(d, e_id))
  IN [i \in 1..Len(sorted_example_nodes_with_batch_id) |->
        sorted_example_nodes_with_batch_id[i][2]]

IndexRow(ids, max_node_num) ==
  [j \in 1..max_node_num |-> IF j <= Len(ids) THEN ids[j] ELSE 0]

\* the whole mask row set to 1
MaskRowAllOnes(ids, max_node_num) == [j \in 1..max_node_num |-> 1]

MaskRow(ids, max_node_num) ==
  [j \in 1..max_node_num |-> IF j <= Len(ids) THEN 1 ELSE 0]

Gather(flattened_node_encodings, index) ==
  [e \in 1..Len(index) |->
     [j \in 1..Len(index[e]) |-> flattened_node_encodings[index[e][j] + 1]]]

\* the gather's result returned without the masked_fill_
MaskedFillSkipped(encoding, masks) == encoding

MaskedFill(encoding, masks) ==
  [e \in 1..Len(encoding) |->
     [j \in 1..Len(encoding[e]) |->
        IF 1 - masks[e][j] # 0 THEN ZeroVector ELSE encoding[e][j]]]

UnpackBatchEncoding ==
  /\ pc = "unpack"
  /\ IF Len(asts) = 0
     THEN \* max() of an empty sequence
          /\ pc' = "error" /\ error' = "ValueError" /\ UNCHANGED result
     ELSE LET batch_size == Len(asts)
              max_node_num == MaxNodeNum(asts)
              ids == [e \in 1..batch_size |->
                        ExampleNodesBatchId(tree_node2batch_graph_node, e - 1)]
              index == [e \in 1..batch_size |-> IndexRow(ids[e], max_node_num)]
              batch_tree_node_masks == [e \in 1..batch_size |-> MaskRow(ids[e], max_node_num)]
          IN IF \E e \in 1..batch_size : Len(ids[e]) > max_node_num
             THEN \* index[e_id, :n] = ids with more ids than columns
                  /\ pc' = "error" /\ error' = "ValueError" /\ UNCHANGED result
             ELSE IF \E e \in 1..batch_size : \E j \in 1..max_node_num :
                        index[e][j] >= Len(tree_node_encoding)
             THEN \* the gather reads a row the engine's output does not have
                  /\ pc' = "error" /\ error' = "IndexError" /\ UNCHANGED result
             ELSE /\ result' =
                       [batch_tree_node_encoding |->
                          MaskedFill(Gather(tree_node_encoding, index), batch_tree_node_masks),
                        batch_tree_node_masks |-> batch_tree_node_masks]
                  /\ pc' = "done"
                  /\ UNCHANGED error
  /\ UNCHANGED <<asts, loopVars, tree_node2batch_graph_node, listVars, adj_lists,
                 batch_graph_node2tree_node, indices, gnn_calls, tree_node_encoding>>

Next ==
  \/ AddEdge
  \/ AddTerminalPair
  \/ NextAst
  \/ ReturnAdjacencyLists
  \/ GetBatchedTreeInitEncoding
  \/ ComputeNodeRepresentations
  \/ ComputeNodeRepresentationsFails
  \/ UnpackBatchEncoding

Spec == Init /\ [][Next]_vars

\* ======================= properties =======================

TreeIndexes == 0..(Len(asts) - 1)

\* get_batched_adjacency_lists has returned
Returned == pc \in {"init", "gnn", "unpack", "done"} \/ (pc = "error" /\ error # "KeyError")

\* the parent/child edges of tree t processed so far
EdgesDone(t) ==
  IF t < ast_id THEN Len(asts[t + 1].adjacency_list)
  ELSE IF t = ast_id THEN edge_pos ELSE 0

ProcessedEndpoints ==
  UNION {UNION {{<<t, asts[t + 1].adjacency_list[k][1]>>,
                 <<t, asts[t + 1].adjacency_list[k][2]>>} : k \in 1..EdgesDone(t)} :
           t \in TreeIndexes}

\* the local ids of tree t that are an endpoint of one of its parent/child edges
Endpoints(t) ==
  {asts[t + 1].adjacency_list[k][1] : k \in 1..Len(asts[t + 1].adjacency_list)}
  \cup {asts[t + 1].adjacency_list[k][2] : k \in 1..Len(asts[t + 1].adjacency_list)}

\* the local ids of tree t present in the combined mapping
MappedIds(t) ==
  {tree_node2batch_graph_node[i][1][2] :
     i \in {i \in 1..Len(tree_node2batch_graph_node) :
              tree_node2batch_graph_node[i][1][1] = t}}

MappedCount(t) == Cardinality(MappedIds(t))

\* the element of S with exactly j smaller elements (j counted from 0)
JthSmallest(S, j) == CHOOSE x \in S : Cardinality({y \in S : y < x}) = j

Count(seq, x) == Cardinality({i \in 1..Len(seq) : seq[i] = x})

Range(seq) == {seq[i] : i \in 1..Len(seq)}

\* C1: after any prefix of the parent/child edges has been processed the
\* map (tree-index, local-id) -> combined-id has exactly the endpoints of the
\* processed edges as keys, is injective and has image 0 .. n-1, n the number
\* of those endpoints (one counter for the whole batch); the reverse map
\* built at the end is its exact inverse.
C1_CombinedIdsBijective ==
  LET d == tree_node2batch_graph_node
      r == batch_graph_node2tree_node
      n == Cardinality(ProcessedEndpoints)
  IN /\ Len(d) = n
     /\ {d[i][1] : i \in 1..Len(d)} = ProcessedEndpoints
     /\ {d[i][2] : i \in 1..Len(d)} = 0..(n - 1)
     /\ Returned =>
          /\ Len(r) = n
          /\ \A i \in 1..Len(d) : \E j \in 1..Len(r) : r[j] = <<d[i][2], d[i][1]>>

\* two trees of one batch both have mapped nodes: the ids of the second
\* continue those of the first
C1_Witness ==
  /\ pc = "done"
  /\ MappedCount(0) >= 2
  /\ MappedCount(1) >= 2
  /\ HasKey(tree_node2batch_graph_node, <<0, 0>>)
  /\ HasKey(tree_node2batch_graph_node, <<1, 0>>)

\* C2: row e, position j < (mapped nodes of e) of the output holds the
\* propagated vector of the combined-id of the mapped node of tree e with the
\* j-th smallest local id, which is a node of tree e.
C2_RowsHoldOwnNodesInIdOrder ==
  pc = "done" =>
    \A e \in TreeIndexes : \A j \in 0..(MappedCount(e) - 1) :
      LET key == <<e, JthSmallest(MappedIds(e), j)>>
          row == result.batch_tree_node_encoding[e + 1]
      IN /\ j < Len(row)
         /\ HasKey(tree_node2batch_graph_node, key)
         /\ row[j + 1] = tree_node_encoding[GetItem(tree_node2batch_graph_node, key) + 1]
         /\ \E i \in 1..Len(batch_graph_node2tree_node) :
              /\ Row(batch_graph_node2tree_node[i][1]) = row[j + 1]
              /\ batch_graph_node2tree_node[i][2][1] = e

\* a tree whose nodes were met in another order than that of their local ids,
\* in a batch of several trees
C2_Witness ==
  /\ pc = "done"
  /\ Len(asts) >= 2
  /\ \E i, j \in 1..Len(tree_node2batch_graph_node) :
       /\ i < j
       /\ tree_node2batch_graph_node[i][1][1] = tree_node2batch_graph_node[j][1][1]
       /\ tree_node2batch_graph_node[i][1][2] > tree_node2batch_graph_node[j][1][2]

ResultWidths ==
  {Len(result.batch_tree_node_encoding[e]) : e \in 1..Len(result.batch_tree_node_encoding)}
  \cup {Len(result.batch_tree_node_masks[e]) : e \in 1..Len(result.batch_tree_node_masks)}

C4_EmptyBatchNeverReachesEngine == Len(asts) = 0 => gnn_calls = 0

\* C5: the mask row of every tree is 1 at positions 0 .. k-1 and 0 after, k
\* the number of the tree's nodes in the combined mapping.
C5_MaskRowIsPrefixOfOnes ==
  pc = "done" =>
    \A e \in TreeIndexes :
      LET row == result.batch_tree_node_masks[e + 1]
      IN /\ MappedCount(e) <= Len(row)
         /\ \A j \in 0..(Len(row) - 1) : row[j + 1] = IF j < MappedCount(e) THEN 1 ELSE 0
         /\ Count(row, 1) = MappedCount(e)

\* a tree of one node and no edge beside a tree with mapped nodes
C5_Witness ==
  /\ pc = "done"
  /\ \E e \in TreeIndexes : asts[e + 1].size = 1 /\ MappedCount(e) = 0
  /\ \E e \in TreeIndexes : MappedCount(e) >= 2

\* C6: every returned output position whose mask value is 0 holds the zero vector.
C6_MaskedPositionsAreZero ==
  pc = "done" =>
    \A e \in 1..Len(result.batch_tree_node_masks) :
      \A j \in 1..Len(result.batch_tree_node_masks[e]) :
        result.batch_tree_node_masks[e][j] = 0 =>
          result.batch_tree_node_encoding[e][j] = ZeroVector

\* a padding position, where the gather had put the vector of combined-id 0
C6_Witness ==
  /\ pc = "done"
  /\ tree_node_encoding[1] # ZeroVector
  /\ \E e \in 1..Len(result.batch_tree_node_masks) :
       \E j \in 1..Len(result.batch_tree_node_masks[e]) :
         result.batch_tree_node_masks[e][j] = 0

Mirrored(forward, reverse) ==
  /\ Len(forward) = Len(reverse)
  /\ \A p \in Range(forward) \cup {<<q[2], q[1]>> : q \in Range(reverse)} :
       Count(forward, p) = Count(reverse, <<p[2], p[1]>>)

\* C7: each pair (u, v) occurs in the forward-tree relation as often as (v, u)
\* in the reverse-tree relation, the same between the chain relations, and
\* all relations of the batch carry the same node count.
C7_ReverseRelationsMirrorForward ==
  Returned =>
    /\ Len(adj_lists) >= 2
    /\ Mirrored(adj_lists[1].adj_list, adj_lists[2].adj_list)
    /\ Len(adj_lists) > 2 =>
         /\ Len(adj_lists) = 4
         /\ Mirrored(adj_lists[3].adj_list, adj_lists[4].adj_list)
    /\ \A i \in 1..Len(adj_lists) : adj_lists[i].node_num = adj_lists[1].node_num

\* four relations, the forward-tree one holding a pair twice
C7_Witness ==
  /\ Returned
  /\ Len(adj_lists) = 4
  /\ \E i, j \in 1..Len(adj_lists[1].adj_list) :
       i # j /\ adj_lists[1].adj_list[i] = adj_lists[1].adj_list[j]

TotalTerminalPairs ==
  SumSeq([e \in 1..Len(asts) |-> Len(asts[e].adjacent_terminal_nodes)])

\* C8: the relation set holds two relations when no tree of the batch has an
\* adjacent-terminal pair and four when some tree has one, the chain
\* relations then holding the pairs of all trees.
C8_ChainRelationsDecidedPerBatch ==
  Returned =>
    IF \A e \in 1..Len(asts) : asts[e].adjacent_terminal_nodes = <<>>
    THEN Len(adj_lists) = 2
    ELSE /\ Len(adj_lists) = 4
         /\ Len(adj_lists[3].adj_list) = TotalTerminalPairs
         /\ Len(adj_lists[4].adj_list) = TotalTerminalPairs

\* a batch in which one tree has adjacent-terminal pairs and a later one has none
C8_Witness ==
  /\ Returned
  /\ Len(adj_lists) = 4
  /\ Len(asts) >= 2
  /\ asts[1].adjacent_terminal_nodes # <<>>
  /\ asts[Len(asts)].adjacent_terminal_nodes = <<>>

\* tree t has an adjacent-terminal pair naming a local id that is no
\* endpoint of a parent/child edge of t
Malformed(t) ==
  \E k \in 1..Len(asts[t + 1].adjacent_terminal_nodes) :
    \/ asts[t + 1].adjacent_terminal_nodes[k][1] \notin Endpoints(t)
    \/ asts[t + 1].adjacent_terminal_nodes[k][2] \notin Endpoints(t)

\* C9: with such a pair in the batch the call ends in an error (it cannot
\* stop anywhere but in the KeyError): no relation set and no output is
\* returned, the engine is not invoked, and every pair that was resolved was
\* resolved to the combined-ids of its own tree.
C9_UnmappedTerminalAbortsBatch ==
  (\E t \in TreeIndexes : Malformed(t)) =>
    /\ pc \in {"adj", "error"}
    /\ pc = "error" => error = "KeyError"
    /\ pc = "adj" => ENABLED Next
    /\ gnn_calls = 0
    /\ adj_lists = <<>>
    /\ result = NoResult
    /\ \A k \in 1..Len(terminal_nodes_adj_list) :
         \E t \in TreeIndexes : \E m \in 1..Len(asts[t + 1].adjacent_terminal_nodes) :
           LET pair == asts[t + 1].adjacent_terminal_nodes[m]
               d == tree_node2batch_graph_node
           IN /\ HasKey(d, <<t, pair[1]>>)
              /\ HasKey(d, <<t, pair[2]>>)
              /\ terminal_nodes_adj_list[k] =
                   <<GetItem(d, <<t, pair[1]>>), GetItem(d, <<t, pair[2]>>)>>

\* the call has failed on a pair of the second tree whose local ids are
\* mapped in the first tree
C9_Witness ==
  /\ pc = "error"
  /\ error = "KeyError"
  /\ ast_id = 1
  /\ LET pair == asts[2].adjacent_terminal_nodes[term_pos + 1]
     IN /\ HasKey(tree_node2batch_graph_node, <<0, pair[1]>>)
        /\ HasKey(tree_node2batch_graph_node, <<0, pair[2]>>)

\* C10: position c of the index vector is the feature index of the node the
\* reverse map gives for c: the vocabulary index, below the vocabulary size,
\* for a variable node, and the grammar index plus the vocabulary size, at or
\* above it, for any other node.
C10_IndexFollowsCombinedId ==
  pc \in {"gnn", "unpack", "done"} =>
    /\ Len(indices) = Len(tree_node2batch_graph_node)
    /\ \A c \in 0..(Len(indices) - 1) :
         /\ batch_graph_node2tree_node[c + 1][1] = c
         /\ LET tree_node == batch_graph_node2tree_node[c + 1][2]
                node == asts[tree_node[1] + 1].id_to_node[tree_node[2]]
            IN IF node.is_variable_node
               THEN /\ indices[c + 1] = VocabSource[node.var_id]
                    /\ indices[c + 1] < Cardinality(DOMAIN VocabSource)
               ELSE /\ indices[c + 1] =
                         SyntaxTypeToId[node.node_type] + Cardinality(DOMAIN VocabSource)
                    /\ indices[c + 1] >= Cardinality(DOMAIN VocabSource)

\* the index vector of two trees holds a variable node and a syntax node
C10_Witness ==
  /\ pc = "gnn"
  /\ MappedCount(0) >= 1
  /\ MappedCount(1) >= 1
  /\ \E i, j \in 1..Len(indices) :
       indices[i] < Cardinality(DOMAIN VocabSource)
       /\ indices[j] >= Cardinality(DOMAIN VocabSource)
====
